---- MODULE Spec2Model ----
(***************************************************************************)
(* Model of src/widget/cosmic_widget.rs: the Layer enumeration, the        *)
(* CosmicWidget trait with its default methods, CosmicElement and its two  *)
(* wrappers CosmicMap and CosmicExplain.                                   *)
(*                                                                         *)
(* A widget is a nested record.  The innermost record is a base widget (an *)
(* implementor of CosmicWidget that stores its layer); around it sit the   *)
(* wrappers built by CosmicElement::map and CosmicElement::explain.        *)
(***************************************************************************)
EXTENDS Integers, Sequences, FiniteSets, TLC

VARIABLES widget, issued, last

vars == <<widget, issued, last>>

(* ------------------------------ bounds -------------------------------- *)
MaxDepth == 2
MaxEmit == 2
MaxMsg == 2
MaxSets == 2
MaxNodes == 3
MaxOps == 3

(* ------------------------------ Layer --------------------------------- *)
Layers == {"Background", "Primary", "Secondary"}

LayerDefault == "Background"

(* ------------------------- environment values -------------------------- *)
Colors == {"red", "blue"}

Prims == {"inc", "zero"}

Mappers == {<<p>> : p \in Prims}

BaseMsgs == 1..MaxMsg

SeqsUpTo(S, n) == UNION {[1..k -> S] : k \in 0..n}

Prim(p, m) ==
  CASE p = "inc" -> m + 1
    [] p = "zero" -> 0

RECURSIVE Call(_, _)
Call(mapper, m) ==
  IF mapper = <<>> THEN m
  ELSE Call(Tail(mapper), Prim(Head(mapper), m))

(* ---------------------------- base widget ------------------------------ *)
BaseWidget(container) ==
  [kind |-> "base", layer |-> LayerDefault, container |-> container,
   width |-> "Shrink", tag |-> "base_tag", received |-> <<>>]

Base_set_layer(w, l) ==
  [w EXCEPT !.layer = l, !.received = Append(@, l)]

(* --------------------------- CosmicElement ----------------------------- *)
CosmicMap_new(w, f) == [kind |-> "map", widget |-> w, mapper |-> f]

CosmicExplain_new(e, color) == [kind |-> "explain", element |-> e, color |-> color]

CosmicElement_map(e, f) == CosmicMap_new(e, f)

CosmicElement_explain(e, color) == CosmicExplain_new(e, color)

RECURSIVE Depth(_)
Depth(w) ==
  CASE w.kind = "base" -> 0
    [] w.kind = "map" -> 1 + Depth(w.widget)
    [] w.kind = "explain" -> 1 + Depth(w.element)

Inner(w) == IF w.kind = "map" THEN w.widget ELSE w.element

RECURSIVE BaseOf(_)
BaseOf(w) == IF w.kind = "base" THEN w ELSE BaseOf(Inner(w))

(* ------------------------ CosmicWidget methods ------------------------- *)
is_container(w) ==
  IF w.kind = "base" THEN w.container ELSE FALSE

layer(w) ==
  IF w.kind = "base" THEN w.layer ELSE LayerDefault

child_layer_no_promotion_to_secondary(w) ==
  IF is_container(w)
  THEN CASE layer(w) = "Background" -> "Primary"
         [] layer(w) \in {"Primary", "Secondary"} -> "Primary"
  ELSE layer(w)

child_layer_ignores_is_container(w) ==
  CASE layer(w) = "Background" -> "Primary"
    [] layer(w) \in {"Primary", "Secondary"} -> "Secondary"

child_layer(w) ==
  IF is_container(w)
  THEN CASE layer(w) = "Background" -> "Primary"
         [] layer(w) \in {"Primary", "Secondary"} -> "Secondary"
  ELSE layer(w)

RECURSIVE set_layer(_, _)

CosmicExplain_set_layer_not_forwarded(w, l) == w

CosmicExplain_set_layer(w, l) == [w EXCEPT !.element = set_layer(w.element, l)]

CosmicMap_set_layer(w, l) == [w EXCEPT !.widget = set_layer(w.widget, l)]

set_layer(w, l) ==
  CASE w.kind = "base" -> Base_set_layer(w, l)
    [] w.kind = "map" -> CosmicMap_set_layer(w, l)
    [] w.kind = "explain" -> CosmicExplain_set_layer(w, l)

(* ------------------- pass-through Widget methods ----------------------- *)
RECURSIVE width(_)
CosmicExplain_width(w) == width(w.element)

CosmicMap_width(w) == width(w.widget)

width(w) ==
  CASE w.kind = "base" -> w.width
    [] w.kind = "map" -> CosmicMap_width(w)
    [] w.kind = "explain" -> CosmicExplain_width(w)

RECURSIVE tag(_)
CosmicExplain_tag(w) == tag(w.element)

CosmicMap_tag(w) == tag(w.widget)

tag(w) ==
  CASE w.kind = "base" -> w.tag
    [] w.kind = "map" -> CosmicMap_tag(w)
    [] w.kind = "explain" -> CosmicExplain_tag(w)

(* ------------------------------ on_event ------------------------------- *)
\* Shell::merge: extend the messages with the other shell's, each through f.
RECURSIVE Shell_merge(_, _, _)
Shell_merge(shell, other, f) ==
  IF other = <<>> THEN shell
  ELSE Shell_merge(Append(shell, Call(f, Head(other))), Tail(other), f)

\* The base widget publishes the messages the event makes it emit.
Base_on_event(w, ev, shell) ==
  [status |-> ev.status, shell |-> shell \o ev.emits]

RECURSIVE on_event(_, _, _)

CosmicExplain_on_event(w, ev, shell) == on_event(w.element, ev, shell)

CosmicMap_on_event_callers_shell(w, ev, shell) == on_event(w.widget, ev, shell)

CosmicMap_on_event_unmapped(w, ev, shell) ==
  LET r == on_event(w.widget, ev, <<>>)
  IN [status |-> r.status, shell |-> Shell_merge(shell, r.shell, <<>>)]

CosmicMap_on_event(w, ev, shell) ==
  LET local_messages == <<>>
      r == on_event(w.widget, ev, local_messages)
  IN [status |-> r.status, shell |-> Shell_merge(shell, r.shell, w.mapper)]

on_event(w, ev, shell) ==
  CASE w.kind = "base" -> Base_on_event(w, ev, shell)
    [] w.kind = "map" -> CosmicMap_on_event(w, ev, shell)
    [] w.kind = "explain" -> CosmicExplain_on_event(w, ev, shell)

Statuses == {"Ignored", "Captured"}

Events == {[emits |-> e, status |-> s] : e \in SeqsUpTo(BaseMsgs, MaxEmit), s \in Statuses}

PreShells == {<<>>, <<7>>}

(* -------------------------------- draw --------------------------------- *)
\* A layout tree with nodes 1..n rooted at 1; parent[k] < k keeps it acyclic.
LayoutTrees ==
  UNION {{[n |-> N, parent |-> p] :
            p \in {q \in [2..N -> 1..N] : \A k \in 2..N : q[k] < k}} :
         N \in 1..MaxNodes}

Layout_bounds(t, n) == [x |-> n, y |-> n, width |-> t.n, height |-> 1]

RECURSIVE Ascending(_)
Ascending(S) ==
  IF S = {} THEN <<>>
  ELSE LET m == CHOOSE x \in S : \A y \in S : x <= y
       IN <<m>> \o Ascending(S \ {m})

Layout_children(t, n) == Ascending({k \in 2..t.n : t.parent[k] = n})

Quad(bounds, color) ==
  [kind |-> "quad", bounds |-> bounds, border_color |-> color,
   border_width |-> 1, border_radius |-> 0, background |-> "TRANSPARENT"]

RECURSIVE explain_layout(_, _, _, _)
RECURSIVE explain_children(_, _, _, _)

explain_layout_root_only(renderer, color, t, n) ==
  Append(renderer, Quad(Layout_bounds(t, n), color))

explain_layout(renderer, color, t, n) ==
  explain_children(Append(renderer, Quad(Layout_bounds(t, n), color)),
                   color, t, Layout_children(t, n))

\* the loop `for child in layout.children()`
explain_children(renderer, color, t, cs) ==
  IF cs = <<>> THEN renderer
  ELSE explain_children(explain_layout(renderer, color, t, Head(cs)),
                        color, t, Tail(cs))

\* The base widget issues its own draw calls.
Base_draw(w, renderer, t, calls) == renderer \o calls

RECURSIVE draw(_, _, _, _)

CosmicExplain_draw(w, renderer, t, calls) ==
  explain_layout(draw(w.element, renderer, t, calls), w.color, t, 1)

CosmicMap_draw(w, renderer, t, calls) == draw(w.widget, renderer, t, calls)

draw(w, renderer, t, calls) ==
  CASE w.kind = "base" -> Base_draw(w, renderer, t, calls)
    [] w.kind = "map" -> CosmicMap_draw(w, renderer, t, calls)
    [] w.kind = "explain" -> CosmicExplain_draw(w, renderer, t, calls)

BaseDraws ==
  {<<>>, <<[kind |-> "text", id |-> 1]>>,
   <<[kind |-> "text", id |-> 1], [kind |-> "text", id |-> 2]>>}

(* ------------------------------- operate ------------------------------- *)
CallerOperation == [kind |-> "caller"]

MapOperation(operation) == [kind |-> "MapOperation", operation |-> operation]

\* The caller's operation records the query, then descends once with itself.
Caller_container(op, id) ==
  [log |-> <<[q |-> "container", id |-> id]>>, child |-> op]

RECURSIVE Operation_container(_, _)

\* self.operation.container(id, |operation| operate_on_children(MapOperation{operation}))
MapOperation_container_not_rewrapped(op, id) ==
  Operation_container(op.operation, id)

MapOperation_container(op, id) ==
  LET r == Operation_container(op.operation, id)
  IN [log |-> r.log, child |-> MapOperation(r.child)]

Operation_container(op, id) ==
  IF op.kind = "caller" THEN Caller_container(op, id)
  ELSE MapOperation_container(op, id)

RECURSIVE Operation_leaf(_, _)

\* focusable / scrollable / text_input: self.operation.<query>(state, id)
MapOperation_leaf(op, query) == Operation_leaf(op.operation, query)

Operation_leaf(op, query) ==
  IF op.kind = "caller" THEN <<query>>
  ELSE MapOperation_leaf(op, query)

\* The base widget's operate: a bracketed program of queries.  `ops` is the
\* stack of operations in scope, innermost container first.
RECURSIVE Base_run(_, _, _, _)
Base_run(prog, ops, log, handed) ==
  IF prog = <<>> THEN [log |-> log, handed |-> handed]
  ELSE LET tok == Head(prog)
           cur == Head(ops)
       IN CASE tok.q = "container" ->
                 LET r == Operation_container(cur, tok.id)
                 IN Base_run(Tail(prog), <<r.child>> \o ops,
                             log \o r.log, Append(handed, r.child))
            [] tok.q = "end" ->
                 Base_run(Tail(prog), Tail(ops),
                          Append(log, [q |-> "end"]), handed)
            [] OTHER ->
                 Base_run(Tail(prog), ops,
                          log \o Operation_leaf(cur, tok), handed)

Base_operate(w, operation, prog) ==
  Base_run(prog, <<operation>>, <<>>, <<operation>>)

RECURSIVE operate(_, _, _)

CosmicExplain_operate(w, operation, prog) == operate(w.element, operation, prog)

CosmicMap_operate(w, operation, prog) ==
  operate(w.widget, MapOperation(operation), prog)

operate(w, operation, prog) ==
  CASE w.kind = "base" -> Base_operate(w, operation, prog)
    [] w.kind = "map" -> CosmicMap_operate(w, operation, prog)
    [] w.kind = "explain" -> CosmicExplain_operate(w, operation, prog)

Tokens ==
  {[q |-> "container", id |-> "a"], [q |-> "end"],
   [q |-> "focusable", state |-> "s1", id |-> "a"],
   [q |-> "scrollable", state |-> "s2", id |-> "None"],
   [q |-> "text_input", state |-> "s3", id |-> "b"]}

\* nesting depth after each prefix; -1 once a bracket closes too early
RECURSIVE Nesting(_, _)
Nesting(prog, d) ==
  IF d < 0 \/ prog = <<>> THEN d
  ELSE Nesting(Tail(prog),
               CASE Head(prog).q = "container" -> d + 1
                 [] Head(prog).q = "end" -> d - 1
                 [] OTHER -> d)

Programs == {p \in SeqsUpTo(Tokens, MaxOps) : Nesting(p, 0) = 0}

(* ------------------------------- overlay ------------------------------- *)
None == [some |-> FALSE]

Some(x) == [some |-> TRUE, value |-> x]

BaseOverlay == [kind |-> "overlay"]

\* overlay::Element::map
overlay_map(ov, f) == [kind |-> "overlay_map", content |-> ov, mapper |-> f]

\* the overlay's own event handling: a mapped overlay merges through f
RECURSIVE overlay_on_event(_, _, _)
overlay_on_event(ov, emits, shell) ==
  IF ov.kind = "overlay" THEN shell \o emits
  ELSE Shell_merge(shell, overlay_on_event(ov.content, emits, <<>>), ov.mapper)

RECURSIVE overlay(_, _)

CosmicExplain_overlay(w, base_ov) == overlay(w.element, base_ov)

CosmicMap_overlay_unmapped(w, base_ov) == overlay(w.widget, base_ov)

CosmicMap_overlay(w, base_ov) ==
  LET o == overlay(w.widget, base_ov)
  IN IF o.some THEN Some(overlay_map(o.value, w.mapper)) ELSE None

overlay(w, base_ov) ==
  CASE w.kind = "base" -> base_ov
    [] w.kind = "map" -> CosmicMap_overlay(w, base_ov)
    [] w.kind = "explain" -> CosmicExplain_overlay(w, base_ov)

(* ------------------------------ actions -------------------------------- *)
NoCall == [op |-> "none"]

Init ==
  /\ widget \in {BaseWidget(c) : c \in BOOLEAN}
  /\ issued = <<>>
  /\ last = NoCall

Map(f) ==
  /\ Depth(widget) < MaxDepth
  /\ widget' = CosmicElement_map(widget, f)
  /\ last' = NoCall
  /\ UNCHANGED issued

Explain(color) ==
  /\ Depth(widget) < MaxDepth
  /\ widget' = CosmicElement_explain(widget, color)
  /\ last' = NoCall
  /\ UNCHANGED issued

SetLayer(l) ==
  /\ Len(issued) < MaxSets
  /\ widget' = set_layer(widget, l)
  /\ issued' = Append(issued, l)
  /\ last' = [op |-> "set_layer", layer |-> l, before |-> widget]

ChildLayer ==
  /\ last' = [op |-> "child_layer", ret |-> child_layer(widget)]
  /\ UNCHANGED <<widget, issued>>

OnEvent(ev, pre) ==
  /\ last' = [op |-> "on_event", ev |-> ev, pre |-> pre,
              ret |-> on_event(widget, ev, pre)]
  /\ UNCHANGED <<widget, issued>>

Draw(t, calls) ==
  /\ last' = [op |-> "draw", layout |-> t, calls |-> calls,
              renderer |-> draw(widget, <<>>, t, calls)]
  /\ UNCHANGED <<widget, issued>>

Operate(prog) ==
  /\ last' = [op |-> "operate", prog |-> prog,
              ret |-> operate(widget, CallerOperation, prog)]
  /\ UNCHANGED <<widget, issued>>

Overlay(base_ov, emits) ==
  /\ last' = [op |-> "overlay", base |-> base_ov, emits |-> emits,
              ret |-> overlay(widget, base_ov)]
  /\ UNCHANGED <<widget, issued>>

\* layer operations on a tree under construction
NextLayer ==
  \/ \E f \in Mappers : Map(f)
  \/ \E c \in Colors : Explain(c)
  \/ \E l \in Layers : SetLayer(l)
  \/ ChildLayer

SpecLayer == Init /\ [][NextLayer]_vars

\* event dispatch and overlay production
NextEvent ==
  \/ \E f \in Mappers : Map(f)
  \/ \E c \in Colors : Explain(c)
  \/ \E ev \in Events, pre \in PreShells : OnEvent(ev, pre)
  \/ \E emits \in SeqsUpTo(BaseMsgs, MaxEmit) : Overlay(Some(BaseOverlay), emits)
  \/ Overlay(None, <<>>)

SpecEvent == Init /\ [][NextEvent]_vars

\* drawing
NextDraw ==
  \/ \E f \in Mappers : Map(f)
  \/ \E c \in Colors : Explain(c)
  \/ \E t \in LayoutTrees, calls \in BaseDraws : Draw(t, calls)

SpecDraw == Init /\ [][NextDraw]_vars

\* tree-operation traversal
NextOperate ==
  \/ \E f \in Mappers : Map(f)
  \/ \E c \in Colors : Explain(c)
  \/ \E prog \in Programs : Operate(prog)

SpecOperate == Init /\ [][NextOperate]_vars

(* ============================ properties =============================== *)

\* the wrappers of a widget, outermost first, without what they wrap
RECURSIVE Wrappers(_)
Wrappers(w) ==
  CASE w.kind = "base" -> <<>>
    [] w.kind = "map" -> <<[kind |-> "map", mapper |-> w.mapper]>> \o Wrappers(w.widget)
    [] w.kind = "explain" ->
         <<[kind |-> "explain", color |-> w.color]>> \o Wrappers(w.element)

\* a widget and everything nested in it
RECURSIVE SubWidgets(_)
SubWidgets(w) == IF w.kind = "base" THEN {w} ELSE {w} \cup SubWidgets(Inner(w))

RECURSIVE NumMaps(_)
NumMaps(w) ==
  CASE w.kind = "base" -> 0
    [] w.kind = "map" -> 1 + NumMaps(w.widget)
    [] w.kind = "explain" -> NumMaps(w.element)

\* the caller's operation under k MapOperation adapters
RECURSIVE Wrapped(_)
Wrapped(k) == IF k = 0 THEN CallerOperation ELSE MapOperation(Wrapped(k - 1))

\* C1: set_layer(L) followed by layer() returns L, for every layer L and every
\* widget, the CosmicMap and CosmicExplain wrappers included.
C1_SetLayerRoundTrip ==
  last.op = "set_layer" => layer(widget) = last.layer

\* C2: for every widget whose is_container() is true, child_layer() is its
\* layer promoted one step, saturating: Background gives Primary, Primary gives
\* Secondary, Secondary gives Secondary.
C2_ContainerPromotes ==
  /\ \A s \in SubWidgets(widget) :
       is_container(s) =>
         /\ layer(s) = "Background" => child_layer(s) = "Primary"
         /\ layer(s) = "Primary" => child_layer(s) = "Secondary"
         /\ layer(s) = "Secondary" => child_layer(s) = "Secondary"
  /\ (last.op = "child_layer" /\ is_container(widget)) =>
       /\ last.ret \in {"Primary", "Secondary"}
       /\ last.ret = "Primary" <=> layer(widget) = "Background"

C2_Witness ==
  /\ last.op = "child_layer"
  /\ is_container(widget)
  /\ layer(widget) = "Secondary"
  /\ last.ret = "Secondary"

\* C3: for every widget whose is_container() is false, child_layer() returns
\* exactly the layer that layer() reports, and the call changes no state of the
\* widget.
C3_LeafKeepsLayer ==
  [][(last'.op = "child_layer" /\ ~is_container(widget)) =>
       (last'.ret = layer(widget) /\ widget' = widget)]_vars

C3_Witness ==
  /\ last.op = "child_layer"
  /\ widget.kind = "base"
  /\ ~is_container(widget)
  /\ layer(widget) = "Secondary"
  /\ last.ret = "Secondary"

\* C4: when one on_event call makes the widget W inside a CosmicMap with
\* function f emit m1..mn, the caller's shell afterwards is what it held before
\* followed by f(m1)..f(mn) in that order, and the status is W's.
C4_MapPreservesOrder ==
  (last.op = "on_event" /\ widget.kind = "map") =>
    LET W == on_event(widget.widget, last.ev, <<>>)
        n == Len(W.shell)
        k == Len(last.pre)
        out == last.ret.shell
    IN /\ Len(out) = k + n
       /\ \A i \in 1..k : out[i] = last.pre[i]
       /\ \A i \in 1..n : out[k + i] = Call(widget.mapper, W.shell[i])
       /\ last.ret.status = W.status

C4_Witness ==
  /\ last.op = "on_event"
  /\ widget.kind = "map"
  /\ widget.mapper = <<"zero">>
  /\ last.pre # <<>>
  /\ Len(last.ev.emits) = 2
  /\ last.ev.emits[1] # last.ev.emits[2]
  /\ Len(last.ret.shell) = 3

\* C5: for node.map(f).map(g), every message m the base widget emits reaches
\* the caller's shell as g(f(m)), one for one and in emission order; the result
\* equals that of a single map with the composed function.
C5_MapComposes ==
  (last.op = "on_event" /\ widget.kind = "map" /\ widget.widget.kind = "map") =>
    LET g == widget.mapper
        f == widget.widget.mapper
        node == widget.widget.widget
        m == on_event(node, last.ev, <<>>).shell
        k == Len(last.pre)
        out == last.ret.shell
    IN /\ Len(out) = k + Len(m)
       /\ \A i \in 1..Len(m) : out[k + i] = Call(g, Call(f, m[i]))
       /\ last.ret = on_event(CosmicMap_new(node, f \o g), last.ev, last.pre)

C5_Witness ==
  /\ last.op = "on_event"
  /\ widget.kind = "map"
  /\ widget.widget.kind = "map"
  /\ widget.mapper = <<"inc">>
  /\ widget.widget.mapper = <<"zero">>
  /\ last.ev.emits = <<1, 2>>
  /\ last.pre # <<>>
  /\ last.ret.shell = last.pre \o <<1, 1>>

\* the layout node whose outline is the i-th quad of a sequence of outlines
NodeAt(t, outlines, i) ==
  CHOOSE n \in 1..t.n : Layout_bounds(t, n) = outlines[i].bounds

RECURSIVE IsAncestor(_, _, _)
IsAncestor(t, a, n) ==
  \/ n = a
  \/ n > 1 /\ IsAncestor(t, a, t.parent[n])

C7_ExplainIsPureDecoration ==
  widget.kind = "explain" =>
    LET node == widget.element
    IN /\ width(widget) = width(node)
       /\ tag(widget) = tag(node)
       /\ layer(widget) = layer(node)
       /\ is_container(widget) = is_container(node)
       /\ child_layer(widget) = child_layer(node)
       /\ \A l \in Layers : BaseOf(set_layer(widget, l)) = BaseOf(set_layer(node, l))
       /\ \A ev \in Events, pre \in PreShells :
            on_event(widget, ev, pre) = on_event(node, ev, pre)
       /\ \A prog \in Programs :
            operate(widget, CallerOperation, prog) = operate(node, CallerOperation, prog)
       /\ \A o \in {None, Some(BaseOverlay)} : overlay(widget, o) = overlay(node, o)

\* C8: a CosmicMap with function f yields no overlay exactly when the widget it
\* wraps yields none; otherwise it yields an overlay whose every emitted message
\* m reaches the caller as f(m).
C8_MapOverlay ==
  (last.op = "overlay" /\ widget.kind = "map") =>
    LET o == overlay(widget.widget, last.base)
    IN /\ last.ret.some = o.some
       /\ o.some =>
            LET m == overlay_on_event(o.value, last.emits, <<>>)
                out == overlay_on_event(last.ret.value, last.emits, <<>>)
            IN /\ Len(out) = Len(m)
               /\ \A i \in 1..Len(m) : out[i] = Call(widget.mapper, m[i])

C8_Witness ==
  /\ last.op = "overlay"
  /\ widget.kind = "map"
  /\ widget.mapper = <<"inc">>
  /\ last.ret.some
  /\ last.emits = <<2, 1>>
  /\ overlay_on_event(last.ret.value, last.emits, <<>>) = <<3, 2>>

C10_SetLayerForwarded ==
  /\ BaseOf(widget).received = issued
  /\ issued # <<>> => BaseOf(widget).layer = issued[Len(issued)]
  /\ last.op = "set_layer" =>
       /\ Wrappers(widget) = Wrappers(last.before)
       /\ BaseOf(widget).received = Append(BaseOf(last.before).received, last.layer)
       /\ BaseOf(widget).container = BaseOf(last.before).container

C10_Witness ==
  /\ last.op = "set_layer"
  /\ Depth(widget) = 2
  /\ widget.kind = "explain"
  /\ widget.element.kind = "map"
  /\ issued = <<"Secondary", "Primary">>
  /\ BaseOf(widget).layer = "Primary"

====
